---- MODULE Spec2Model ----
(***************************************************************************)
(* State-machine model of async_rust_tui: the debounced station search     *)
(* (App::maybe_fetch_suggestions, handle_station_keys), the journey merge  *)
(* engine (App::replace_journeys), the countdown (App::remaining_time) and *)
(* the background refresh task (App::start_refresh_task).                  *)
(*                                                                         *)
(* Time is counted in milliseconds.  A Rust String is modelled as its      *)
(* sequence of UTF-8 bytes: a one-byte character is a single element, a    *)
(* two-byte character is its lead element followed by the continuation     *)
(* marker Cont, so String::len, String::insert and String::remove index    *)
(* bytes exactly as the standard library does.                             *)
(***************************************************************************)
EXTENDS Integers, Sequences, FiniteSets, TLC

VARIABLES
    mode,              \* App.mode
    input,             \* App.input : InputState
    timer,             \* App.timer : TimerState
    chosen_start,      \* App.chosen_start
    chosen_dest,       \* App.chosen_dest
    config,            \* App.config
    journeys,          \* App.journeys
    journeys_selected, \* App.journeys_selected
    journeys_loading,  \* App.journeys_loading
    file,              \* contents of CONFIG_PATH on disk
    now,               \* the clock read by Instant::now / Zoned::now (ms)
    pc,                \* position of the UI loop: "idle" or "fetching"
    query,             \* local `query` of maybe_fetch_suggestions
    inflight,          \* number of fetch_places calls not yet answered
    panicked,          \* the process has panicked
    ret,               \* value returned by the last handle_station_keys
    last,              \* the operation that produced the current state
    burst_calls,       \* lookups issued since the current edit burst began
    refresh_task,      \* App.refresh_task
    data_receiver,     \* App.data_receiver
    chan,              \* batches held by the mpsc channel
    rx_open,           \* the channel's receiver exists
    exited,            \* run has returned and the App is dropped
    task_pc,           \* position of the spawned refresh task
    task_msg,          \* local `msg` of the refresh task
    task_args,         \* (origin, destination) of the task's latest fetch
    start_args,        \* (origin, destination) configured when it started
    spawned,           \* number of tasks (and channels) created
    produced,          \* batches the task has pushed, in order
    received           \* batches the UI loop has received, in order

inputVars   == <<mode, input, chosen_start, chosen_dest, config, file, ret>>
fetchVars   == <<pc, query, inflight>>
journeyVars == <<journeys, journeys_selected, journeys_loading, timer>>
refreshVars == <<refresh_task, data_receiver, chan, rx_open, exited, task_pc,
                 task_msg, task_args, start_args, spawned, produced,
                 received>>
vars == <<mode, input, timer, chosen_start, chosen_dest, config, journeys,
          journeys_selected, journeys_loading, file, now, pc, query,
          inflight, panicked, ret, last, burst_calls, refresh_task,
          data_receiver, chan, rx_open, exited, task_pc, task_msg,
          task_args, start_args, spawned, produced, received>>

\* Option<T>: None is the empty sequence, Some(x) the one-element sequence
None == <<>>
Some(x) == <<x>>
Unwrap(o) == o[1]

\* ------------------------------------------------------------------ bounds
MaxLen        == 3      \* longest text typed, in bytes
MaxNow        == 700    \* the clock stops advancing here (ms)
MaxBurstCalls == 2      \* burst_calls saturates here
MaxInflight   == 2      \* outstanding lookups counted up to here
MaxBatch      == 3      \* longest journey batch delivered
MaxDuration   == 10     \* longest countdown tried, in seconds
MaxProduced   == 6      \* batches the refresh task pushes before it is cut
MaxSpawn      == 2      \* refresh tasks ever spawned
MaxNowCapture == 1050   \* the clock's end when stations are picked thrice (ms)

\* --------------------------------------------------------- program constants
SUGGESTION_DEBOUNCE_MS == 350
MIN_QUERY_LEN          == 2

\* ------------------------------------------------------------ UTF-8 strings
Cont == "~"                       \* a UTF-8 continuation byte
\* characters typed: "a" is ASCII, "E" stands for the two-byte U+00E9
Alphabet == {"a", "E"}

len_utf8(c) == IF c = "E" THEN 2 ELSE 1

encode_utf8(c) == IF len_utf8(c) = 2 THEN <<c, Cont>> ELSE <<c>>

is_char_boundary(s, idx) ==
    \/ idx = 0
    \/ idx = Len(s)
    \/ idx < Len(s) /\ s[idx + 1] # Cont

\* width in bytes of the character that starts at byte idx (0-based)
WidthAt(s, idx) ==
    IF idx + 2 <= Len(s) /\ s[idx + 2] = Cont THEN 2 ELSE 1

\* String::insert(idx, c); panics unless idx is a char boundary
insert_panics(s, idx) == ~is_char_boundary(s, idx)
insert(s, idx, c) ==
    SubSeq(s, 1, idx) \o encode_utf8(c) \o SubSeq(s, idx + 1, Len(s))

\* String::remove(idx); panics unless idx < len and idx is a char boundary
remove_panics(s, idx) == idx >= Len(s) \/ ~is_char_boundary(s, idx)
remove(s, idx) ==
    SubSeq(s, 1, idx) \o SubSeq(s, idx + WidthAt(s, idx) + 1, Len(s))

\* number of characters (not bytes) of a string
NumChars(s) == Cardinality({i \in 1..Len(s) : s[i] # Cont})

Min(a, b) == IF a <= b THEN a ELSE b
Max(a, b) == IF a >= b THEN a ELSE b

\* ------------------------------------------------------------------ places
Place(i, n) == [id |-> i, name |-> n, embedded_type |-> "stop_area"]
P1 == Place("id1", "Alpha")
P2 == Place("id2", "Beta")

\* answers of fetch_places
Responses == {<<>>, <<P1>>, <<P2>>, <<P1, P2>>}

\* failures of fetch_places, and their Display text
Errors == {"timeout", "denied"}
SncfAPIError(e) == <<"API error: ", e>>

SavedPlace(p) == [id |-> p.id, name |-> p.name]
AppConfig(s, d) == [start |-> SavedPlace(s), destination |-> SavedPlace(d)]

\* toml::to_string_pretty / toml::from_str of an AppConfig: four key = value
\* lines in two tables
to_toml(conf) ==
    << <<"start", "id", conf.start.id>>,
       <<"start", "name", conf.start.name>>,
       <<"destination", "id", conf.destination.id>>,
       <<"destination", "name", conf.destination.name>> >>

TomlGet(d, table, key) ==
    LET hits == {i \in 1..Len(d) : d[i][1] = table /\ d[i][2] = key}
    IN  IF hits = {} THEN None ELSE Some(d[CHOOSE i \in hits : TRUE][3])

from_toml(d) ==
    IF \E t \in {"start", "destination"}, k \in {"id", "name"} :
           TomlGet(d, t, k) = None
    THEN None
    ELSE Some([start |->
                   [id   |-> Unwrap(TomlGet(d, "start", "id")),
                    name |-> Unwrap(TomlGet(d, "start", "name"))],
               destination |->
                   [id   |-> Unwrap(TomlGet(d, "destination", "id")),
                    name |-> Unwrap(TomlGet(d, "destination", "name"))]])

\* load_config: no file, or a file that does not parse, gives None
load_config == IF file = None THEN None ELSE from_toml(Unwrap(file))

\* ------------------------------------------------------------------- Init
\* App::new: the state after construction, with or without a saved config
Init ==
    /\ file \in {None, Some(to_toml(AppConfig(P1, P2)))}
    /\ now = 0
    /\ mode = IF load_config # None THEN "Timer" ELSE "InputStart"
    /\ input = [text |-> <<>>, cursor |-> 0, suggestions |-> <<>>,
                selected |-> 0, last_edit_at |-> now, last_queried |-> <<>>,
                loading |-> FALSE, error |-> None]
    /\ timer = [start |-> now, duration |-> 3600000, notified |-> FALSE,
                zero_at |-> None]
    /\ chosen_start = IF load_config = None THEN None
                      ELSE Some(Place(Unwrap(load_config).start.id,
                                      Unwrap(load_config).start.name))
    /\ chosen_dest = IF load_config = None THEN None
                     ELSE Some(Place(Unwrap(load_config).destination.id,
                                     Unwrap(load_config).destination.name))
    /\ config = load_config
    /\ journeys = <<>>
    /\ journeys_selected = 0
    /\ journeys_loading = TRUE
    /\ pc = "idle"
    /\ query = <<>>
    /\ inflight = 0
    /\ panicked = FALSE
    /\ ret = "No"
    /\ last = [op |-> "new", arg |-> None]
    /\ burst_calls = 0
    /\ refresh_task = None
    /\ data_receiver = None
    /\ chan = <<>>
    /\ rx_open = FALSE
    /\ exited = FALSE
    /\ task_pc = "none"
    /\ task_msg = <<>>
    /\ task_args = None
    /\ start_args = None
    /\ spawned = 0
    /\ produced = <<>>
    /\ received = <<>>

\* ------------------------------------------------------- UI loop scheduling
\* The UI loop is one task: a handler runs only when no handler is suspended
\* (maybe_fetch_suggestions holds &mut self across its await) and the
\* process is alive and run has not returned.
UiReady == pc = "idle" /\ ~panicked /\ ~exited

\* an edit starts a new burst when the debounce interval has passed since
\* the previous edit
BurstAfterEdit ==
    IF now - input.last_edit_at >= SUGGESTION_DEBOUNCE_MS THEN 0
    ELSE burst_calls

Panic(op, arg) ==
    /\ panicked' = TRUE
    /\ last' = [op |-> op, arg |-> arg]
    /\ UNCHANGED <<inputVars, fetchVars, journeyVars, refreshVars, now, burst_calls>>

\* --------------------------------------------------------------- app.rs
\* App::reset_input, as the new value of `input`
reset_input(inp) ==
    [inp EXCEPT !.text = <<>>, !.cursor = 0, !.suggestions = <<>>,
                !.selected = 0, !.last_queried = <<>>, !.error = None]

\* save_config: the write may fail; the caller discards the result
save_config(conf) == file' \in {Some(to_toml(conf)), file}

\* ------------------------------------------------------------- events.rs
\* handle_keys dispatches to handle_station_keys in the two input modes
handle_keys == UiReady /\ mode \in {"InputStart", "InputDest"}

KeyQuit ==
    /\ handle_keys
    /\ ret' = "Yes"
    /\ last' = [op |-> "Quit", arg |-> None]
    /\ UNCHANGED <<mode, input, chosen_start, chosen_dest, config, file,
                   fetchVars, journeyVars, refreshVars, now, panicked, burst_calls>>

\* suggestions.get(selected)
SuggestionGet(inp) ==
    IF inp.selected < Len(inp.suggestions)
    THEN Some(inp.suggestions[inp.selected + 1]) ELSE None

KeyEnter ==
    /\ handle_keys
    /\ LET place == SuggestionGet(input) IN
       IF place = None
       THEN /\ ret' = "No"
            /\ UNCHANGED <<mode, input, chosen_start, chosen_dest, config,
                           file>>
       ELSE IF mode = "InputStart"
       THEN /\ chosen_start' = place      \* Some(place)
            /\ input' = reset_input(input)
            /\ mode' = "InputDest"
            /\ ret' = "No"
            /\ UNCHANGED <<chosen_dest, config, file>>
       ELSE /\ chosen_dest' = place
            /\ input' = reset_input(input)
            /\ IF chosen_start # None
               THEN /\ save_config(AppConfig(Unwrap(chosen_start),
                                              Unwrap(place)))
                    /\ config' = Some(AppConfig(Unwrap(chosen_start),
                                                Unwrap(place)))
                    /\ ret' = "Yes"
               ELSE /\ ret' = "No"
                    /\ UNCHANGED <<config, file>>
            /\ UNCHANGED <<mode, chosen_start>>
    /\ last' = [op |-> "Enter", arg |-> None]
    /\ UNCHANGED <<fetchVars, journeyVars, refreshVars, now, panicked, burst_calls>>

BackspaceEdits(inp) == inp.cursor > 0 /\ inp.cursor <= Len(inp.text)

KeyBackspace ==
    /\ handle_keys
    /\ IF ~BackspaceEdits(input)
       THEN /\ ret' = "No"
            /\ last' = [op |-> "Backspace", arg |-> None]
            /\ UNCHANGED <<mode, input, chosen_start, chosen_dest, config,
                           file, fetchVars, journeyVars, refreshVars, now, panicked,
                           burst_calls>>
       ELSE IF remove_panics(input.text, input.cursor - 1)
       THEN Panic("Backspace", None)
       ELSE /\ input' = [input EXCEPT
                           !.text = remove(input.text, input.cursor - 1),
                           !.cursor = input.cursor - 1,
                           !.last_edit_at = now]
            /\ burst_calls' = BurstAfterEdit
            /\ ret' = "No"
            /\ last' = [op |-> "Backspace", arg |-> None]
            /\ UNCHANGED <<mode, chosen_start, chosen_dest, config, file,
                           fetchVars, journeyVars, refreshVars, now, panicked>>

KeyLeft ==
    /\ handle_keys
    /\ input' = IF input.cursor > 0
                THEN [input EXCEPT !.cursor = input.cursor - 1] ELSE input
    /\ ret' = "No"
    /\ last' = [op |-> "Left", arg |-> None]
    /\ UNCHANGED <<mode, chosen_start, chosen_dest, config, file, fetchVars,
                   journeyVars, refreshVars, now, panicked, burst_calls>>

\* faulty variant: Right moves the cursor without looking at the text
RightUnguarded(inp) == [inp EXCEPT !.cursor = inp.cursor + 1]

Right(inp) ==
    IF inp.cursor < Len(inp.text)
    THEN [inp EXCEPT !.cursor = inp.cursor + 1] ELSE inp

KeyRight ==
    /\ handle_keys
    /\ input' = Right(input)
    /\ ret' = "No"
    /\ last' = [op |-> "Right", arg |-> None]
    /\ UNCHANGED <<mode, chosen_start, chosen_dest, config, file, fetchVars,
                   journeyVars, refreshVars, now, panicked, burst_calls>>

\* faulty variant: Up at the first entry jumps to the last one
UpWraps(inp) ==
    IF inp.selected > 0
    THEN [inp EXCEPT !.selected = inp.selected - 1]
    ELSE [inp EXCEPT !.selected = Max(Len(inp.suggestions), 1) - 1]

Up(inp) ==
    IF inp.selected > 0
    THEN [inp EXCEPT !.selected = inp.selected - 1] ELSE inp

KeyUp ==
    /\ handle_keys
    /\ input' = Up(input)
    /\ ret' = "No"
    /\ last' = [op |-> "Up", arg |-> None]
    /\ UNCHANGED <<mode, chosen_start, chosen_dest, config, file, fetchVars,
                   journeyVars, refreshVars, now, panicked, burst_calls>>

\* faulty variant: Down compares against len + 1
DownOffByOne(inp) ==
    IF inp.selected < Len(inp.suggestions)
    THEN [inp EXCEPT !.selected = inp.selected + 1] ELSE inp

Down(inp) ==
    IF inp.selected + 1 < Len(inp.suggestions)
    THEN [inp EXCEPT !.selected = inp.selected + 1] ELSE inp

KeyDown ==
    /\ handle_keys
    /\ input' = Down(input)
    /\ ret' = "No"
    /\ last' = [op |-> "Down", arg |-> None]
    /\ UNCHANGED <<mode, chosen_start, chosen_dest, config, file, fetchVars,
                   journeyVars, refreshVars, now, panicked, burst_calls>>

KeyChar(c) ==
    /\ handle_keys
    /\ Len(input.text) + len_utf8(c) <= MaxLen
    /\ IF insert_panics(input.text, input.cursor)
       THEN Panic("Char", c)
       ELSE /\ input' = [input EXCEPT
                           !.text = insert(input.text, input.cursor, c),
                           !.cursor = input.cursor + 1,
                           !.last_edit_at = now]
            /\ burst_calls' = BurstAfterEdit
            /\ ret' = "No"
            /\ last' = [op |-> "Char", arg |-> c]
            /\ UNCHANGED <<mode, chosen_start, chosen_dest, config, file,
                           fetchVars, journeyVars, refreshVars, now, panicked>>

\* ------------------------------------------------ maybe_fetch_suggestions
\* faulty variant: the length test is dropped
ShouldFetchNoMin(inp, t) ==
    /\ inp.text # inp.last_queried
    /\ t - inp.last_edit_at >= SUGGESTION_DEBOUNCE_MS

\* the condition of the `if` at the head of maybe_fetch_suggestions
ShouldFetch(inp, t) ==
    /\ Len(inp.text) >= MIN_QUERY_LEN
    /\ inp.text # inp.last_queried
    /\ t - inp.last_edit_at >= SUGGESTION_DEBOUNCE_MS

\* a tick whose condition is false: the function returns at once
TickSkip ==
    /\ UiReady
    /\ ~ShouldFetch(input, now)
    /\ last' = [op |-> "tick", arg |-> None]
    /\ UNCHANGED <<inputVars, fetchVars, journeyVars, refreshVars, now, panicked,
                   burst_calls>>

\* faulty variant: loading is not raised before the await
FetchStartInputNoLoading(inp) == inp

\* a tick whose condition is true, up to the await of fetch_places
FetchStartInput(inp) == [inp EXCEPT !.loading = TRUE]

TickFetch ==
    /\ UiReady
    /\ inflight < MaxInflight
    /\ ShouldFetch(input, now)
    /\ input' = FetchStartInput(input)
    /\ query' = input.text
    /\ pc' = "fetching"
    /\ inflight' = inflight + 1
    /\ burst_calls' = Min(burst_calls + 1, MaxBurstCalls)
    /\ last' = [op |-> "tick", arg |-> input.text]
    /\ UNCHANGED <<mode, chosen_start, chosen_dest, config, file, ret,
                   journeyVars, refreshVars, now, panicked>>

\* faulty variant: the Ok arm keeps the old selection index
FetchOkInputKeepSelected(inp, list, q) ==
    [inp EXCEPT !.suggestions = list, !.error = None,
                !.last_queried = q, !.loading = FALSE]

\* the Ok arm, then loading = false
FetchOkInput(inp, list, q) ==
    [inp EXCEPT !.suggestions = list, !.selected = 0, !.error = None,
                !.last_queried = q, !.loading = FALSE]

FetchOk(list) ==
    /\ pc = "fetching" /\ ~panicked
    /\ input' = FetchOkInput(input, list, query)
    /\ pc' = "idle"
    /\ query' = <<>>
    /\ inflight' = inflight - 1
    /\ last' = [op |-> "fetch_ok", arg |-> list, query |-> query]
    /\ UNCHANGED <<mode, chosen_start, chosen_dest, config, file, ret,
                   journeyVars, refreshVars, now, panicked, burst_calls>>

\* faulty variant: the Err arm also drops the suggestions shown
FetchErrInputClears(inp, e) ==
    [inp EXCEPT !.error = Some(SncfAPIError(e)), !.loading = FALSE,
                !.suggestions = <<>>, !.selected = 0]

\* the Err arm, then loading = false
\* faulty variant: the Err arm records the text as queried
FetchErrInputRecordsQuery(inp, e) ==
    [inp EXCEPT !.error = Some(SncfAPIError(e)), !.loading = FALSE,
                !.last_queried = inp.text]

FetchErrInput(inp, e) ==
    [inp EXCEPT !.error = Some(SncfAPIError(e)), !.loading = FALSE]

FetchErr(e) ==
    /\ pc = "fetching" /\ ~panicked
    /\ input' = FetchErrInput(input, e)
    /\ pc' = "idle"
    /\ query' = <<>>
    /\ inflight' = inflight - 1
    /\ last' = [op |-> "fetch_err", arg |-> e, query |-> query]
    /\ UNCHANGED <<mode, chosen_start, chosen_dest, config, file, ret,
                   journeyVars, refreshVars, now, panicked, burst_calls>>

\* ------------------------------------------------------------------ clock
Delays == {SUGGESTION_DEBOUNCE_MS \div 2, SUGGESTION_DEBOUNCE_MS}

AdvanceWithin(d, limit) ==
    /\ ~panicked
    /\ now + d <= limit
    /\ now' = now + d
    /\ last' = [op |-> "advance", arg |-> d]
    /\ UNCHANGED <<inputVars, fetchVars, journeyVars, refreshVars, panicked, burst_calls>>

Advance(d) == AdvanceWithin(d, MaxNow)

\* ---------------------------------------------------------- specification
Next ==
    \/ KeyQuit
    \/ KeyEnter
    \/ KeyBackspace
    \/ KeyLeft
    \/ KeyRight
    \/ KeyUp
    \/ KeyDown
    \/ \E c \in Alphabet : KeyChar(c)
    \/ TickSkip
    \/ TickFetch
    \/ \E list \in Responses : FetchOk(list)
    \/ \E e \in Errors : FetchErr(e)
    \/ \E d \in Delays : Advance(d)

Spec == Init /\ [][Next]_vars

\* -------------------------------------------------------- journeys (app.rs)
\* a Journey; dep and arr are instants in seconds on the model's clock
Journey(dep, arr, date, dur, nb) ==
    [dep |-> dep, arr |-> arr, date_str |-> date, duration_secs |-> dur,
     nb_transfers |-> nb]

J1  == Journey(0, 1, "d1", 60, 0)
J2  == Journey(1, 2, "d1", 60, 0)
J3  == Journey(2, 3, "d1", 60, 1)
J1b == Journey(0, 1, "d2", 60, 0)   \* J1 again, on another display date
Journeys == {J1, J2, J3, J1b}

RECURSIVE SeqsUpTo(_, _)
SeqsUpTo(S, n) ==
    IF n = 0 THEN {<<>>}
    ELSE LET shorter == SeqsUpTo(S, n - 1)
         IN  shorter \cup {Append(q, x) : q \in shorter, x \in S}

\* the batches fetch_journeys can deliver: any order, any subset; J1 and J1b
\* give a batch two entries with one composite key
Batches ==
    {q \in SeqsUpTo(Journeys, MaxBatch) :
        \A i, k \in 1..Len(q) : i # k => q[i] # q[k]}

JourneyKey(j) ==
    [dep |-> j.dep, arr |-> j.arr, duration_secs |-> j.duration_secs,
     nb_transfers |-> j.nb_transfers]

\* App::selected_journey_key
selected_journey_key(js, sel) ==
    IF js = <<>> THEN None
    ELSE Some(JourneyKey(js[Min(sel, Len(js) - 1) + 1]))

\* faulty variant: the last matching entry is taken
position_last(js, key) ==
    LET hits == {i \in 1..Len(js) : JourneyKey(js[i]) = key}
    IN  IF hits = {} THEN None
        ELSE Some((CHOOSE i \in hits : \A h \in hits : i >= h) - 1)

\* Iterator::position with the key comparison of replace_journeys
position(js, key) ==
    LET hits == {i \in 1..Len(js) : JourneyKey(js[i]) = key}
    IN  IF hits = {} THEN None
        ELSE Some((CHOOSE i \in hits : \A h \in hits : i <= h) - 1)

\* faulty variant: the key is not searched: the old index is kept, clamped
ResolveSelectionByIndex(selected_key, js, old_sel) ==
    IF selected_key # None THEN Min(old_sel, Len(js) - 1) ELSE 0

\* faulty variant: the fallback keeps the old index without clamping it
ResolveSelectionNoClamp(selected_key, js, old_sel) ==
    IF selected_key # None
    THEN IF position(js, Unwrap(selected_key)) # None
         THEN Unwrap(position(js, Unwrap(selected_key)))
         ELSE old_sel
    ELSE 0

\* the selection replace_journeys resolves for a non-empty new list
ResolveSelection(selected_key, js, old_sel) ==
    IF selected_key # None
    THEN IF position(js, Unwrap(selected_key)) # None
         THEN Unwrap(position(js, Unwrap(selected_key)))
         ELSE Min(old_sel, Len(js) - 1)
    ELSE 0

\* now.until(&dep) in whole seconds, truncated toward zero, floored at 0
SecsUntil(dep, t) ==
    LET diff == dep * 1000 - t
    IN  IF diff < 0 THEN 0 ELSE diff \div 1000

\* faulty variant: the flags of the previous countdown are kept
update_timer_keep_flags(tm, js, sel, t) ==
    IF js = <<>> THEN tm
    ELSE [tm EXCEPT
            !.start = t,
            !.duration = SecsUntil(js[Min(sel, Len(js) - 1) + 1].dep, t) * 1000]

\* App::update_timer_from_selection, as the new value of `timer`
update_timer_from_selection(tm, js, sel, t) ==
    IF js = <<>> THEN tm
    ELSE [start    |-> t,
          duration |-> SecsUntil(js[Min(sel, Len(js) - 1) + 1].dep, t) * 1000,
          notified |-> FALSE,
          zero_at  |-> None]

\* faulty variant: an empty batch leaves the selection index where it was
replace_journeys_keep_index(data) ==
    /\ ~panicked
    /\ journeys' = data
    /\ journeys_loading' = FALSE
    /\ IF data = <<>>
       THEN /\ journeys_selected' = journeys_selected
            /\ timer' = timer
       ELSE /\ journeys_selected' =
                  ResolveSelection(selected_journey_key(journeys,
                                                        journeys_selected),
                                   data, journeys_selected)
            /\ timer' = update_timer_from_selection(timer, data,
                                                    journeys_selected', now)
    /\ last' = [op |-> "replace_journeys", arg |-> data,
                prev_key |-> selected_journey_key(journeys,
                                                  journeys_selected),
                prev_sel |-> journeys_selected,
                prev_notified |-> timer.notified]
    /\ UNCHANGED <<inputVars, fetchVars, now, panicked, burst_calls>>

\* App::replace_journeys
replace_journeys(data) ==
    /\ ~panicked
    /\ journeys' = data
    /\ journeys_loading' = FALSE
    /\ IF data = <<>>
       THEN /\ journeys_selected' = 0
            /\ timer' = timer
       ELSE /\ journeys_selected' =
                  ResolveSelection(selected_journey_key(journeys,
                                                        journeys_selected),
                                   data, journeys_selected)
            /\ timer' = update_timer_from_selection(timer, data,
                                                    journeys_selected', now)
    /\ last' = [op |-> "replace_journeys", arg |-> data,
                prev_key |-> selected_journey_key(journeys,
                                                  journeys_selected),
                prev_sel |-> journeys_selected,
                prev_notified |-> timer.notified]
    /\ UNCHANGED <<inputVars, fetchVars, now, panicked, burst_calls>>

\* faulty variant: the subtraction is not guarded
remaining_time_unguarded(duration, elapsed) == duration - elapsed

\* App::remaining_time, on Durations in milliseconds
remaining_time(duration, elapsed) ==
    IF elapsed >= duration THEN 0 ELSE duration - elapsed

\* the countdown is seen at zero: the UI loop raises notified and notes the
\* instant in zero_at
NoteZero ==
    /\ ~panicked
    /\ ~timer.notified
    /\ remaining_time(timer.duration, now - timer.start) = 0
    /\ timer' = [timer EXCEPT !.notified = TRUE, !.zero_at = Some(now)]
    /\ last' = [op |-> "note_zero", arg |-> None]
    /\ UNCHANGED <<inputVars, fetchVars, refreshVars, journeys,
                   journeys_selected, journeys_loading, now, panicked,
                   burst_calls>>

NextMerge ==
    \/ \E data \in Batches : replace_journeys(data) /\ UNCHANGED refreshVars
    \/ NoteZero
    \/ \E d \in Delays : Advance(d)

\* the journey list is refreshed only once a configuration exists
InitMerge == Init /\ config # None

SpecMerge == InitMerge /\ [][NextMerge]_vars

\* ------------------------------------------------------ countdown (app.rs)
\* the countdown lengths and the elapsed times tried
Durations == {k * 1000 : k \in 0..MaxDuration}
Elapsings == {k * 500 : k \in 0..(2 * MaxDuration + 2)}

\* app.timer.duration = Duration::from_secs(..)
SetDuration(d) ==
    /\ ~panicked
    /\ timer' = [timer EXCEPT !.duration = d]
    /\ last' = [op |-> "set_duration", arg |-> d]
    /\ UNCHANGED <<inputVars, fetchVars, refreshVars, journeys,
                   journeys_selected, journeys_loading, now, panicked,
                   burst_calls>>

\* a call of app.remaining_time(elapsed); `last` holds what it returned
RemainingTime(elapsed) ==
    /\ ~panicked
    /\ last' = [op |-> "remaining_time", arg |-> elapsed,
                result |-> remaining_time(timer.duration, elapsed)]
    /\ UNCHANGED <<inputVars, fetchVars, refreshVars, journeyVars, now,
                   panicked, burst_calls>>

NextTimer ==
    \/ \E d \in Durations : SetDuration(d)
    \/ \E e \in Elapsings : RemainingTime(e)

SpecTimer == Init /\ [][NextTimer]_vars

\* ------------------------------------------- background refresh (app.rs)
\* mpsc::channel::<Vec<Journey>>(5)
CHANNEL_CAPACITY == 5

\* answers of fetch_journeys
RefreshBatches == {<<J1, J2>>, <<J2, J3>>}

\* the identifiers handed to fetch_journeys
ConfigIds(c) == <<c.start.id, c.destination.id>>

\* faulty variant: a recorded task does not refuse a new start
StartRefusedNoTaskCheck == config = None

\* the early return of start_refresh_task
StartRefused == config = None \/ refresh_task # None

\* faulty variant: the channel takes any number of batches
HasCapacityUnbounded(ch) == TRUE

\* Sender::send completes only while a permit is free
HasCapacity(ch) == Len(ch) < CHANNEL_CAPACITY

\* faulty variant: the newest batch overtakes the queued ones
send_front(ch, msg) == <<msg>> \o ch

\* faulty variant: the batch is dropped instead of queued
send_dropped(ch, msg) == ch

\* Sender::send: the batch joins the queue at its tail
send(ch, msg) == Append(ch, msg)

TaskStep == [op |-> "refresh_task", arg |-> None]

\* faulty variant: a task that panicked goes round its loop again
AtLoopTopAfterPanic(p) == p \in {"spawned", "sleeping", "panicked"}

\* the task is about to run the body of its loop: it was just spawned or its
\* sleep has ended
AtLoopTop(p) == p \in {"spawned", "sleeping"}

\* App::start_refresh_task
StartRefreshTask ==
    /\ UiReady
    /\ IF StartRefused
       THEN UNCHANGED refreshVars
       ELSE /\ spawned < MaxSpawn
            /\ spawned' = spawned + 1
            /\ refresh_task' = Some(spawned')
            /\ data_receiver' = Some(spawned')
            /\ chan' = <<>>
            /\ rx_open' = TRUE
            /\ task_pc' = "spawned"
            /\ task_msg' = <<>>
            /\ task_args' = None
            /\ start_args' = Some(ConfigIds(Unwrap(config)))
            /\ produced' = <<>>
            /\ received' = <<>>
            /\ UNCHANGED exited
    /\ last' = [op |-> "start_refresh_task", arg |-> None,
                refused |-> StartRefused]
    /\ UNCHANGED <<inputVars, fetchVars, journeyVars, now, panicked,
                   burst_calls>>

\* the top of the task's loop: self.config is read and fetch_journeys is
\* called with its identifiers; the sleep of the previous round has ended
TaskLoop ==
    /\ AtLoopTop(task_pc)
    /\ Len(produced) < MaxProduced
    /\ IF config = None
       THEN task_pc' = "panicked" /\ UNCHANGED task_args
       ELSE task_pc' = "fetching" /\
            task_args' = Some(ConfigIds(Unwrap(config)))
    /\ last' = TaskStep
    /\ UNCHANGED <<inputVars, fetchVars, journeyVars, now, panicked,
                   burst_calls, refresh_task, data_receiver, chan, rx_open,
                   exited, task_msg, start_args, spawned, produced,
                   received>>

\* fetch_journeys answers Ok(msg)
TaskFetchOk(batch) ==
    /\ task_pc = "fetching"
    /\ task_msg' = batch
    /\ task_pc' = "sending"
    /\ last' = TaskStep
    /\ UNCHANGED <<inputVars, fetchVars, journeyVars, now, panicked,
                   burst_calls, refresh_task, data_receiver, chan, rx_open,
                   exited, task_args, start_args, spawned, produced,
                   received>>

\* fetch_journeys answers Err: .unwrap() panics inside the task
TaskFetchErr ==
    /\ task_pc = "fetching"
    /\ task_pc' = "panicked"
    /\ last' = TaskStep
    /\ UNCHANGED <<inputVars, fetchVars, journeyVars, now, panicked,
                   burst_calls, refresh_task, data_receiver, chan, rx_open,
                   exited, task_msg, task_args, start_args, spawned,
                   produced, received>>

\* data_sender.send(msg).await completes; the task goes to sleep
TaskSend ==
    /\ task_pc = "sending"
    /\ rx_open
    /\ HasCapacity(chan)
    /\ chan' = send(chan, task_msg)
    /\ produced' = Append(produced, task_msg)
    /\ task_pc' = "sleeping"
    /\ last' = TaskStep
    /\ UNCHANGED <<inputVars, fetchVars, journeyVars, now, panicked,
                   burst_calls, refresh_task, data_receiver, rx_open, exited,
                   task_msg, task_args, start_args, spawned, received>>

\* data_sender.send(msg).await fails, the receiver is gone: break
TaskSendClosed ==
    /\ task_pc = "sending"
    /\ ~rx_open
    /\ task_pc' = "terminated"
    /\ last' = TaskStep
    /\ UNCHANGED <<inputVars, fetchVars, journeyVars, now, panicked,
                   burst_calls, refresh_task, data_receiver, chan, rx_open,
                   exited, task_msg, task_args, start_args, spawned,
                   produced, received>>

\* the UI loop takes the oldest batch from the receiver and merges it
Recv ==
    /\ UiReady
    /\ data_receiver # None
    /\ rx_open
    /\ chan # <<>>
    /\ replace_journeys(Head(chan))
    /\ chan' = Tail(chan)
    /\ received' = Append(received, Head(chan))
    /\ UNCHANGED <<refresh_task, data_receiver, rx_open, exited, task_pc,
                   task_msg, task_args, start_args, spawned, produced>>

\* run returns and the App is dropped, its receiver with it; the spawned
\* task is detached and goes on
DropApp ==
    /\ UiReady
    /\ rx_open
    /\ rx_open' = FALSE
    /\ exited' = TRUE
    /\ last' = [op |-> "drop", arg |-> None]
    /\ UNCHANGED <<inputVars, fetchVars, journeyVars, now, panicked,
                   burst_calls, refresh_task, data_receiver, chan, task_pc,
                   task_msg, task_args, start_args, spawned, produced,
                   received>>

NextRefresh ==
    \/ StartRefreshTask
    \/ TaskLoop
    \/ \E batch \in RefreshBatches : TaskFetchOk(batch)
    \/ TaskFetchErr
    \/ TaskSend
    \/ TaskSendClosed
    \/ Recv
    \/ DropApp

SpecRefresh == Init /\ [][NextRefresh]_vars

\* ------------------------------------- delivery while everything works
\* A configuration is loaded, every fetch succeeds and the App lives on.
\* The runtime schedules the spawned task, whose sleeps and fetches end, and
\* the UI loop keeps ticking and takes what the channel holds.
NextDeliver ==
    \/ StartRefreshTask
    \/ TaskLoop
    \/ \E batch \in RefreshBatches : TaskFetchOk(batch)
    \/ TaskSend
    \/ Recv

SpecDeliver ==
    /\ InitMerge
    /\ [][NextDeliver]_vars
    /\ WF_vars(TaskLoop)
    /\ WF_vars(\E batch \in RefreshBatches : TaskFetchOk(batch))
    /\ WF_vars(TaskSend)
    /\ WF_vars(Recv)

\* -------------------------------- stations picked while the task runs
\* The user picks stations (type, wait out the debounce, take the first
\* suggestion with Enter), the refresh task is started and loops, and the
\* user picks a destination again.
NextCapture ==
    \/ KeyChar("a")
    \/ AdvanceWithin(SUGGESTION_DEBOUNCE_MS, MaxNowCapture)
    \/ TickFetch
    \/ \E list \in {<<P1>>, <<P2>>} : FetchOk(list)
    \/ KeyEnter
    \/ StartRefreshTask
    \/ TaskLoop
    \/ TaskFetchOk(<<J1, J2>>)
    \/ TaskSend

SpecCapture == Init /\ [][NextCapture]_vars

\* ===================================================================
\* Properties
\* ===================================================================
Elapsed == now - input.last_edit_at

\* a step of maybe_fetch_suggestions that issues a lookup
LookupIssued == inflight' = inflight + 1

\* C1: on a tick, a lookup is issued iff the text has at least MIN_QUERY_LEN
\* characters, differs from last_queried and the debounce interval has
\* elapsed since the last edit; otherwise InputState is unchanged.
C1_TickIssuesIffThreeConditions ==
    [][last'.op = "tick" =>
         LET cond == /\ NumChars(input.text) >= MIN_QUERY_LEN
                     /\ input.text # input.last_queried
                     /\ Elapsed >= SUGGESTION_DEBOUNCE_MS
         IN  /\ LookupIssued <=> cond
             /\ ~cond => input' = input]_vars

\* The same statement with the length taken as String::len does (bytes).
TickIssuesIffByteCondition ==
    [][last'.op = "tick" =>
         LET cond == /\ Len(input.text) >= MIN_QUERY_LEN
                     /\ input.text # input.last_queried
                     /\ Elapsed >= SUGGESTION_DEBOUNCE_MS
         IN  /\ LookupIssued <=> cond
             /\ LookupIssued => query' = input.text
             /\ ~cond => input' = input]_vars

\* C2: a burst of edits, each within the debounce interval of the previous
\* one, gets at most one lookup, issued with the final text at a tick where
\* the debounce interval has elapsed since the last edit.
C2_OneLookupPerBurst ==
    /\ burst_calls <= 1
    /\ pc = "fetching" =>
         query = input.text /\ Elapsed >= SUGGESTION_DEBOUNCE_MS

C4_SingleFlight ==
    /\ inflight <= 1
    /\ inflight >= 1 => input.loading /\ pc = "fetching"

C4_Witness ==
    /\ inflight = 1
    /\ input.loading
    /\ last.op = "advance"
    /\ query = input.text
    /\ Elapsed > SUGGESTION_DEBOUNCE_MS

\* C5: a successful lookup replaces the suggestions by the returned list,
\* resets selected to 0, clears error and sets last_queried to the query
\* that was issued (the text at the tick that started the lookup).
C5_SuccessAppliesResult ==
    [][/\ LookupIssued => query' = input.text
       /\ pc = "fetching" /\ pc' = "fetching" => query' = query
       /\ last'.op = "fetch_ok" =>
             /\ input'.suggestions = last'.arg
             /\ input'.selected = 0
             /\ input'.error = None
             /\ input'.last_queried = query]_vars

C5_Witness ==
    /\ last.op = "fetch_ok"
    /\ input.suggestions = <<P1, P2>>
    /\ input.last_queried = last.query
    /\ Len(input.last_queried) >= MIN_QUERY_LEN
    /\ input.selected = 0
    /\ input.error = None

\* C6: from the start of a lookup to its failure the suggestions, the
\* selected index and last_queried do not change; the failure sets error to
\* the failure's message; loading is false after either outcome.
C6_FailureKeepsSuggestions ==
    [][/\ (pc = "fetching" \/ pc' = "fetching") /\ last'.op # "fetch_ok" =>
             /\ input'.suggestions = input.suggestions
             /\ input'.selected = input.selected
             /\ input'.last_queried = input.last_queried
       /\ last'.op = "fetch_err" =>
             input'.error = Some(SncfAPIError(last'.arg))
       /\ last'.op \in {"fetch_ok", "fetch_err"} =>
             ~input'.loading /\ input.loading]_vars

C6_Witness ==
    /\ last.op = "fetch_err"
    /\ input.error = Some(SncfAPIError("timeout"))
    /\ input.suggestions = <<P1, P2>>
    /\ input.selected = 1
    /\ input.last_queried # input.text
    /\ ~input.loading

\* C7: loading and error are never both set.
C7_LoadingExcludesError == ~(input.loading /\ input.error # None)

\* C8: whenever the suggestion list is non-empty, selected < len(suggestions).
C8_SelectedInRange ==
    input.suggestions # <<>> => input.selected < Len(input.suggestions)

C8_Witness ==
    /\ last.op = "Down"
    /\ input.suggestions = <<P1, P2>>
    /\ input.selected = 1
    /\ input.error # None

\* the two lists hold the same composite keys, each as many times
SameKeys(a, b) ==
    /\ Len(a) = Len(b)
    /\ \A j \in Journeys :
         Cardinality({i \in 1..Len(a) : JourneyKey(a[i]) = JourneyKey(j)}) =
         Cardinality({i \in 1..Len(b) : JourneyKey(b[i]) = JourneyKey(j)})

\* the journey the user has selected
SelectedJourney == journeys[Min(journeys_selected, Len(journeys) - 1) + 1]

\* C9: replacing a non-empty list by a permutation of the same composite
\* keys leaves the selection on a journey with the selected journey's key.
C9_MergeStability ==
    [][/\ last'.op = "replace_journeys"
       /\ journeys # <<>>
       /\ SameKeys(journeys, journeys')
       => /\ journeys_selected' < Len(journeys')
          /\ JourneyKey(journeys'[journeys_selected' + 1]) =
                 JourneyKey(SelectedJourney)]_vars

C9_Witness ==
    /\ last.op = "replace_journeys"
    /\ journeys = <<J3, J1, J2>>
    /\ last.prev_key = Some(JourneyKey(J3))
    /\ last.prev_sel = 2
    /\ journeys_selected = 0

\* C10: replacing a non-empty list by a non-empty batch without the selected
\* journey's key sets journeys_selected to min(old index, len(batch) - 1).
C10_MergeFallback ==
    [][/\ last'.op = "replace_journeys"
       /\ journeys # <<>>
       /\ journeys' # <<>>
       /\ \A i \in 1..Len(journeys') :
              JourneyKey(journeys'[i]) # JourneyKey(SelectedJourney)
       => journeys_selected' = Min(journeys_selected, Len(journeys') - 1)]_vars

C10_Witness ==
    /\ last.op = "replace_journeys"
    /\ last.prev_key = Some(JourneyKey(J3))
    /\ last.prev_sel = 2
    /\ journeys = <<J1, J2>>
    /\ journeys_selected = 1

\* C11: an empty batch, whatever the list and the selection were, sets
\* journeys_selected to 0, does not fail and leaves the TimerState as it was.
C11_EmptyBatchResets ==
    [][last'.op = "replace_journeys" /\ last'.arg = <<>> =>
         /\ journeys' = <<>>
         /\ journeys_selected' = 0
         /\ timer' = timer
         /\ ~panicked']_vars

C11_Witness ==
    /\ last.op = "replace_journeys"
    /\ last.arg = <<>>
    /\ last.prev_sel = 2
    /\ journeys_selected = 0
    /\ timer.start < now
    /\ ~panicked

\* C12: journeys_selected < len(journeys) whenever journeys is non-empty,
\* and journeys_selected = 0 whenever it is empty.
C12_JourneySelectionInRange ==
    IF journeys = <<>> THEN journeys_selected = 0
    ELSE journeys_selected < Len(journeys)

C12_Witness ==
    /\ last.op = "replace_journeys"
    /\ last.prev_sel = 2
    /\ last.prev_key = Some(JourneyKey(J3))
    /\ journeys = <<J2>>
    /\ journeys_selected = 0

\* the list is in non-decreasing order of departure
SortedByDep(js) == \A i \in 1..(Len(js) - 1) : js[i].dep <= js[i + 1].dep

\* C13: after replace_journeys the displayed list is sorted by departure.
C13_ListSortedAfterReplace ==
    last.op = "replace_journeys" => SortedByDep(journeys)

\* C14: remaining_time(elapsed) is 0 when elapsed >= duration and
\* duration - elapsed otherwise; it is never negative and never exceeds the
\* duration.
C14_RemainingTimeClamped ==
    last.op = "remaining_time" =>
        /\ last.arg >= timer.duration => last.result = 0
        /\ last.arg < timer.duration =>
               last.result = timer.duration - last.arg
        /\ last.result >= 0
        /\ last.result <= timer.duration

C14_Witness ==
    /\ last.op = "remaining_time"
    /\ timer.duration = 5000
    /\ last.arg = 10000
    /\ last.result = 0

\* C15: however often start_refresh_task is called, at most one refresh task
\* and one receiver are ever created; a call made while a task is recorded or
\* while there is no configuration creates nothing and leaves refresh_task
\* and data_receiver as they were.
C15_IdempotentStart ==
    [][/\ spawned' <= 1
       /\ (refresh_task' = None) = (spawned' = 0)
       /\ (data_receiver' = None) = (spawned' = 0)
       /\ (last'.op = "start_refresh_task" /\
           (config = None \/ refresh_task # None)) =>
              (/\ refresh_task' = refresh_task
               /\ data_receiver' = data_receiver
               /\ spawned' = spawned
               /\ chan' = chan
               /\ task_pc' = task_pc)]_vars

C15_Witness ==
    /\ last.op = "start_refresh_task"
    /\ last.refused
    /\ refresh_task = Some(1)
    /\ data_receiver = Some(1)
    /\ spawned = 1
    /\ task_pc = "sleeping"

IsPrefix(a, b) == Len(a) <= Len(b) /\ a = SubSeq(b, 1, Len(a))

\* C16: the batches the UI loop has received are a prefix of the batches the
\* task has pushed, in the same order; while the receiver lives, what was
\* pushed is exactly what was received followed by what is still queued.
C16_FifoNoLoss ==
    /\ IsPrefix(received, produced)
    /\ rx_open => produced = received \o chan

C16_Witness ==
    /\ Len(received) = 2
    /\ received[1] # received[2]
    /\ Len(chan) >= 2
    /\ chan[1] # chan[2]
    /\ last.op = "replace_journeys"

\* C17: the channel never holds more than 5 batches; while it holds 5 and
\* the receiver lives, a task waiting in send stays there, pushes nothing and
\* starts no fetch.
C17_BoundedBackpressure ==
    [][/\ Len(chan') <= CHANNEL_CAPACITY
       /\ (Len(chan) = CHANNEL_CAPACITY /\ task_pc = "sending" /\ rx_open) =>
              (task_pc' = "sending" /\ produced' = produced)]_vars

C17_Witness ==
    /\ Len(chan) = CHANNEL_CAPACITY
    /\ task_pc = "sending"
    /\ rx_open
    /\ Len(produced) = CHANNEL_CAPACITY

\* C18: a started refresh task stops looping only when a send fails because
\* the receiver is gone, and then it ends in its terminated state, not in a
\* panic.
C18_StopsOnlyOnSendFailure ==
    [][(task_pc \in {"spawned", "fetching", "sending", "sleeping"} /\
        task_pc' \in {"terminated", "panicked"}) =>
       (task_pc = "sending" /\ ~rx_open /\ task_pc' = "terminated")]_vars

\* C19: in every iteration of the task's loop the identifiers passed to
\* fetch_journeys are those of the configuration at the time the task was
\* started, whatever App.config has become since.
C19_TaskUsesCapturedConfig ==
    task_pc = "fetching" => task_args = start_args

\* C20: Enter in InputDest mode with a start station chosen and a suggestion
\* under the selection makes that suggestion chosen_dest, makes App.config
\* the pair (chosen_start, suggestion), leaves a saved file that reads back
\* equal to App.config, resets the input and returns QuitApp::Yes.
C20_DestinationConfirmed ==
    [][(/\ last'.op = "Enter"
        /\ mode = "InputDest"
        /\ chosen_start # None
        /\ SuggestionGet(input) # None) =>
       (/\ chosen_dest' = SuggestionGet(input)
        /\ config' = Some(AppConfig(Unwrap(chosen_start),
                                    Unwrap(SuggestionGet(input))))
        /\ file' # None
        /\ from_toml(Unwrap(file')) = config'
        /\ input' = reset_input(input)
        /\ ret' = "Yes")]_vars

\* C21: with n >= 1 suggestions and selected = s < n, Down sets selected to
\* min(s + 1, n - 1) and Up sets it to max(s - 1, 0); no other field of the
\* input state (text, cursor, suggestions, last_edit_at) changes.
C21_NavigationSaturates ==
    [][(/\ last'.op \in {"Down", "Up"}
        /\ Len(input.suggestions) >= 1
        /\ input.selected < Len(input.suggestions)) =>
       (input' = [input EXCEPT !.selected =
                      IF last'.op = "Down"
                      THEN Min(input.selected + 1,
                               Len(input.suggestions) - 1)
                      ELSE Max(input.selected - 1, 0)])]_vars

C21_Witness ==
    /\ last.op = "Up"
    /\ input.suggestions = <<P1, P2>>
    /\ input.selected = 0
    /\ input.text # <<>>
    /\ input.cursor > 0

\* C22: in every reachable state the cursor lies between 0 and the length
\* of the text (String::len).
C22_CursorInRange ==
    input.cursor >= 0 /\ input.cursor <= Len(input.text)

C22_Witness ==
    /\ last.op = "Right"
    /\ Len(input.text) = MaxLen
    /\ input.cursor = Len(input.text)
    /\ ~panicked

\* the 0-based indexes of the entries of js with the four key fields of k
KeyMatches(js, k) ==
    {i \in 0..(Len(js) - 1) :
        /\ js[i + 1].dep = k.dep
        /\ js[i + 1].arr = k.arr
        /\ js[i + 1].duration_secs = k.duration_secs
        /\ js[i + 1].nb_transfers = k.nb_transfers}

\* C23: when the new batch holds one or more journeys with the composite key
\* of the journey selected before, journeys_selected becomes the smallest of
\* their indexes; the display date plays no part in the comparison.
C23_FirstMatchWins ==
    [][(/\ last'.op = "replace_journeys"
        /\ last'.prev_key # None
        /\ KeyMatches(last'.arg, Unwrap(last'.prev_key)) # {}) =>
       (/\ journeys_selected' \in
               KeyMatches(journeys', Unwrap(last'.prev_key))
        /\ \A i \in KeyMatches(journeys', Unwrap(last'.prev_key)) :
               journeys_selected' <= i)]_vars

C23_Witness ==
    /\ last.op = "replace_journeys"
    /\ last.prev_key = Some(JourneyKey(J1))
    /\ last.prev_sel = 0
    /\ journeys = <<J2, J1b, J1>>
    /\ journeys_selected = 1

\* C24: a replace_journeys with a non-empty batch restarts the countdown
\* from the journey at the resulting journeys_selected: start = now,
\* duration = max(0, departure - now) in whole seconds, and, whenever the
\* target journey is not the one selected before, notified = false and
\* zero_at = None.
C24_TimerRecomputed ==
    [][(last'.op = "replace_journeys" /\ last'.arg # <<>>) =>
       (LET dep  == journeys'[journeys_selected' + 1].dep
            diff == dep * 1000 - now
        IN  /\ timer'.start = now
            /\ timer'.duration = 1000 * Max(0, diff \div 1000)
            /\ (Some(JourneyKey(journeys'[journeys_selected' + 1]))
                    # last'.prev_key) =>
                   (~timer'.notified /\ timer'.zero_at = None))]_vars

C24_Witness ==
    /\ last.op = "replace_journeys"
    /\ last.prev_notified
    /\ last.prev_key = Some(JourneyKey(J1))
    /\ journeys = <<J3, J2>>
    /\ journeys_selected = 0
    /\ now = SUGGESTION_DEBOUNCE_MS
    /\ timer = [start |-> now, duration |-> 1000, notified |-> FALSE,
                zero_at |-> None]

\* C25, as stated: once a fetch_journeys call has failed the task fetches,
\* sleeps and pushes no more, no batch is delivered any more, and the
\* journey list and the selection stay as they were.
C25_FailureFreezesDisplay ==
    [][task_pc = "panicked" =>
       (/\ task_pc' = "panicked"
        /\ produced' = produced
        /\ received' = received
        /\ journeys' = journeys
        /\ journeys_selected' = journeys_selected)]_vars

\* C25, amended: once a fetch_journeys call has failed the task fetches,
\* sleeps and pushes no more; the batches queued before the failure are still
\* delivered, and once the queue is empty no batch is delivered and the
\* journey list and the selection stay as they were.
C25_FailureStopsProducer ==
    [][task_pc = "panicked" =>
       (/\ task_pc' = "panicked"
        /\ produced' = produced
        /\ chan' = chan \/ (chan # <<>> /\ chan' = Tail(chan))
        /\ chan = <<>> =>
               (/\ received' = received
                /\ journeys' = journeys
                /\ journeys_selected' = journeys_selected))]_vars

C25_Witness ==
    /\ task_pc = "panicked"
    /\ last.op = "replace_journeys"
    /\ chan = <<>>
    /\ Len(received) = 2
    /\ received = produced
    /\ journeys = received[2]

\* C26: with a configuration, a started task, fetches that succeed and a UI
\* loop that keeps taking batches, the n-th batch pushed is eventually the
\* n-th batch handed to replace_journeys and is then the displayed list, and
\* once the task is started journeys_loading eventually becomes false.
C26_RefreshDelivered ==
    /\ \A n \in 1..MaxProduced :
           (Len(produced) >= n /\ Len(received) < n) ~>
               (/\ Len(received) = n
                /\ received[n] = produced[n]
                /\ journeys = produced[n])
    /\ (spawned = 1) ~> (~journeys_loading)

C26_Witness ==
    /\ Len(produced) = MaxProduced
    /\ received = produced
    /\ journeys = produced[Len(produced)]
    /\ ~journeys_loading
    /\ last.op = "replace_journeys"

\* C27: a failed lookup leaves last_queried and last_edit_at as they were,
\* so the trigger condition still holds after it; the tick that follows a
\* failure, with no edit in between, issues a lookup for the same text; a
\* lookup that succeeds records the text as queried, which ends the
\* repetition.
C27_FailedLookupRetriedEachTick ==
    [][/\ last'.op = "fetch_err" =>
              /\ input'.last_queried = input.last_queried
              /\ input'.last_edit_at = input.last_edit_at
              /\ input'.text = last'.query
              /\ Len(input'.text) >= MIN_QUERY_LEN
              /\ input'.text # input'.last_queried
              /\ now' - input'.last_edit_at >= SUGGESTION_DEBOUNCE_MS
       /\ (last.op = "fetch_err" /\ last'.op = "tick") =>
              /\ LookupIssued
              /\ pc' = "fetching"
              /\ query' = last.query
       /\ last'.op = "fetch_ok" =>
              /\ input'.last_queried = input'.text
              /\ input'.last_queried = last'.query]_vars

C27_Witness ==
    /\ last.op = "fetch_err"
    /\ burst_calls = MaxBurstCalls
    /\ input.text = <<"a", "a">>
    /\ input.last_queried = <<>>
    /\ input.suggestions = <<>>
    /\ pc = "idle"

====
